---- MODULE Spec2Model ----
(***************************************************************************)
(* Model of src/src/HSemaphore.h: the HSemaphore wrapper around a          *)
(* dispatch semaphore, its get-put guard HSemaphore::Scope, the            *)
(* _HSemaphoreSectionScope guard and the HSemaphoreSection(sem) macro.     *)
(*                                                                         *)
(* The dispatch semaphore itself is the platform's: it is modelled by its  *)
(* documented behaviour.  dispatch_semaphore_wait decrements the value and *)
(* waits when the result is negative; dispatch_semaphore_signal increments *)
(* the value and, when the previous value was negative, wakes one waiting  *)
(* thread and returns non-zero.  A wait whose timeout elapses undoes its   *)
(* decrement and returns non-zero.                                         *)
(***************************************************************************)
EXTENDS Integers, FiniteSets, Sequences, TLC

\* ---------------------------------------------------------------- bounds
NThreads == 2        \* threads of the host program
MaxInit == 2         \* largest initialValue given to the constructor
MaxOps == 4          \* calls the threads make on the API, in total

MaxObjs == 3         \* HSemaphore objects of the host program
MaxHandles == 2      \* handles dispatch_semaphore_create can return

Threads == 1..NThreads
Objs == 1..MaxObjs
Handles == 1..MaxHandles

\* ------------------------------------------------------------- constants
\* `dsema_ = NULL;`
NULL == 0

\* "Returns zero on success, or non-zero if the timeout occurred."
Acquired == 0
TimedOut == 1

\* A timeout that has elapsed when the wait looks at it (DISPATCH_TIME_NOW,
\* and any finite time once it has passed), and the one that never elapses.
\* HSemaphore(long initialValue = 0): the count of "HSemaphore sem;".
DefaultInitialValue == 0
DISPATCH_TIME_NOW == "now"
DISPATCH_TIME_FOREVER == "forever"
Timeouts == {DISPATCH_TIME_NOW, DISPATCH_TIME_FOREVER}

\* The exits of a block that is the body of a for statement.
ExitPaths == {"fallthrough", "continue", "break", "return", "throw"}

VARIABLES
  dsema_value,   \* value of the dispatch semaphore dsema_ (negative: waiters)
  wakeups,       \* wake-ups signalled to waiting threads and not yet taken
  initialValue,  \* the constructor's argument
  nput,          \* completed dispatch_semaphore_signal calls
  nacq,          \* dispatch_semaphore_wait calls that returned zero
  role,          \* what each thread's program is
  pc,            \* where each thread is
  caller,        \* while a thread waits: the function that called sem.get()
  timeout,       \* while a thread waits: the timeout of its wait
  last,          \* the call that returned last: thread, function, result
  guard,         \* each thread's stack-local guard object
  counter,       \* the shared counter the section bodies increment
  tmp,           \* each thread's copy of counter, read in its body
  bodyRuns,      \* how often each thread's section body has run
  exitPath,      \* how each thread's section body was left
  ops,           \* calls made on the API so far
  dsema_,        \* the member dsema_ of each HSemaphore object
  life,          \* each HSemaphore object: not yet constructed, live, destroyed
  created,       \* the handles dispatch_semaphore_create has returned
  releases,      \* dispatch_release calls made on each handle
  crashed        \* a dispatch call on an invalid handle has ended the process

semVars == <<dsema_value, wakeups, nput, nacq>>
waitVars == <<caller, timeout>>
bodyVars == <<counter, tmp, bodyRuns, exitPath>>
objVars == <<dsema_, life, created, releases, crashed>>
vars == <<dsema_value, wakeups, initialValue, nput, nacq, role, pc, caller,
          timeout, last, guard, counter, tmp, bodyRuns, exitPath, ops,
          dsema_, life, created, releases, crashed>>

\* A thread's guard slot before any guard has been constructed in it.
NoGuard == [kind |-> "none", live |-> FALSE, used_ |-> FALSE,
            once |-> 0, gets |-> 0, acq |-> 0, puts |-> 0]

\* Threads inside dispatch_semaphore_wait, past the decrement.
Waiting == {t \in Threads : pc[t] = "waiting"}

\* Units of the semaphore that no returned wait has taken: the value, with
\* the decrements of the calls still waiting put back.
Count == dsema_value + Cardinality(Waiting)

\* A thread suspended in wait: only a signal lets it go on.
Blocked(t) == /\ pc[t] = "waiting"
              /\ wakeups = 0
              /\ timeout[t] = DISPATCH_TIME_FOREVER

\* ------------------------------------------------------------ HSemaphore
\* Mutant: the constructor's argument is not handed to
\* dispatch_semaphore_create.
HSemaphore_zero(k) ==
  /\ initialValue = k
  /\ dsema_value = 0
  /\ wakeups = 0
  /\ nput = 0
  /\ nacq = 0

\* HSemaphore(long initialValue=0): dispatch_semaphore_create(initialValue).
HSemaphore(k) ==
  /\ initialValue = k
  /\ dsema_value = k
  /\ wakeups = 0
  /\ nput = 0
  /\ nacq = 0

\* Where a thread goes on when a call returns r.
RetPc(t, who, r) ==
  IF who = "getOnce" /\ role[t] = "section"
    THEN (IF r = 1 THEN "body_read" ELSE "for_end")
    ELSE IF role[t] = "prober" /\ who = "get" THEN "done" ELSE "idle"

\* Mutant: get() drops the wait's result and returns zero.
Result_swallow(who, r) ==
  IF who = "getOnce" THEN 1 ELSE 0

\* What the caller of sem.get() returns when the wait returns r: get() hands
\* r on, Scope's constructor drops it, getOnce() returns (used_ = true).
Result(who, r) ==
  IF who = "get" THEN r ELSE IF who = "getOnce" THEN 1 ELSE 0

\* dispatch_semaphore_wait returns r to `who`, the caller of sem.get(), whose
\* guard object is g; getOnce() sets used_ whatever r is.
Return(t, who, g, to, r) ==
  /\ nacq' = IF r = Acquired THEN nacq + 1 ELSE nacq
  /\ guard' = [guard EXCEPT ![t] =
       IF who = "get" THEN g
       ELSE [g EXCEPT !.used_ = IF who = "getOnce" THEN TRUE ELSE @,
                      !.acq = IF r = Acquired THEN @ + 1 ELSE @]]
  /\ last' = [t |-> t, op |-> who, to |-> to, ret |-> Result(who, r)]
  /\ pc' = [pc EXCEPT ![t] = RetPc(t, who, Result(who, r))]
  /\ caller' = [caller EXCEPT ![t] = "none"]
  /\ timeout' = [timeout EXCEPT ![t] = DISPATCH_TIME_FOREVER]

\* Mutant: get() returns zero without waiting for the value to be positive.
get_noWait(t, who, g, to) ==
  /\ dsema_value' = dsema_value - 1
  /\ UNCHANGED <<wakeups, nput>>
  /\ Return(t, who, g, to, Acquired)

\* long get(dispatch_time_t timeout): dispatch_semaphore_wait(dsema_, timeout),
\* up to the point where the call returns at once or starts to wait.
get(t, who, g, to) ==
  /\ dsema_value' = dsema_value - 1
  /\ UNCHANGED <<wakeups, nput>>
  /\ IF dsema_value - 1 >= 0
       THEN Return(t, who, g, to, Acquired)
       ELSE /\ pc' = [pc EXCEPT ![t] = "waiting"]
            /\ caller' = [caller EXCEPT ![t] = who]
            /\ timeout' = [timeout EXCEPT ![t] = to]
            /\ guard' = [guard EXCEPT ![t] = g]
            /\ UNCHANGED <<last, nacq>>

\* A waiting thread takes a wake-up: its dispatch_semaphore_wait returns zero.
WaitWake(t) ==
  /\ pc[t] = "waiting"
  /\ wakeups > 0
  /\ wakeups' = wakeups - 1
  /\ Return(t, caller[t], guard[t], timeout[t], Acquired)
  /\ UNCHANGED <<dsema_value, nput, initialValue, role, objVars, bodyVars, ops>>

\* A waiting thread's timeout elapses: the wait undoes its decrement while the
\* value is still negative and returns non-zero.
WaitTimeout(t) ==
  /\ pc[t] = "waiting"
  /\ timeout[t] # DISPATCH_TIME_FOREVER
  /\ dsema_value < 0
  /\ dsema_value' = dsema_value + 1
  /\ Return(t, caller[t], guard[t], timeout[t], TimedOut)
  /\ UNCHANGED <<wakeups, nput, initialValue, role, objVars, bodyVars, ops>>

\* What dispatch_semaphore_signal returns: non-zero if a thread is woken.
SignalResult == IF dsema_value < 0 THEN 1 ELSE 0

\* dispatch_semaphore_signal(dsema_): the value is incremented, and a waiting
\* thread is woken when the previous value was negative.
dispatch_semaphore_signal ==
  /\ dsema_value' = dsema_value + 1
  /\ wakeups' = IF dsema_value < 0 THEN wakeups + 1 ELSE wakeups
  /\ nput' = nput + 1
  /\ nacq' = nacq

\* Mutant: put() drops what dispatch_semaphore_signal returns.
put_dropResult(t, who) ==
  /\ dispatch_semaphore_signal
  /\ last' = [t |-> t, op |-> who, to |-> "none", ret |-> 0]

\* long put() { return dispatch_semaphore_signal(dsema_); }
put(t, who) ==
  /\ dispatch_semaphore_signal
  /\ last' = [t |-> t, op |-> who, to |-> "none",
              ret |-> IF who = "put" THEN SignalResult ELSE 0]

\* long tryGet(): `return wait(DISPATCH_TIME_NOW);`.  HSemaphore has no member
\* wait, so the name is the C library's wait(int *), called with a null
\* pointer: it returns -1 when the process has no child and a child's pid
\* otherwise, and it does not touch dsema_.
tryGet(t) ==
  /\ \E r \in {-1, 1} :
       last' = [t |-> t, op |-> "tryGet", to |-> "none", ret |-> r]
  /\ UNCHANGED semVars

\* ------------------------------------------------- calls made by a thread
CanCall(t) == role[t] = "api" /\ pc[t] = "idle" /\ ops < MaxOps

CallGet(t) ==
  /\ CanCall(t)
  /\ \E to \in Timeouts : get(t, "get", guard[t], to)
  /\ ops' = ops + 1
  /\ UNCHANGED <<initialValue, role, objVars, bodyVars>>

CallTryGet(t) ==
  /\ CanCall(t)
  /\ tryGet(t)
  /\ ops' = ops + 1
  /\ UNCHANGED <<initialValue, role, objVars, pc, waitVars, guard, bodyVars>>

CallPut(t) ==
  /\ CanCall(t)
  /\ put(t, "put")
  /\ ops' = ops + 1
  /\ UNCHANGED <<initialValue, role, objVars, pc, waitVars, guard, bodyVars>>

\* ------------------------------------------------------ HSemaphore::Scope
\* Mutant: the constructor does not call sem_.get().
Scope_noGet(t, to) ==
  /\ guard' = [guard EXCEPT ![t] =
       [NoGuard EXCEPT !.kind = "Scope", !.live = TRUE]]
  /\ last' = [t |-> t, op |-> "Scope", to |-> to, ret |-> 0]
  /\ UNCHANGED <<semVars, pc, waitVars>>

\* explicit Scope(HSemaphore & sem, dispatch_time_t timeout): sem_.get(timeout).
Scope(t, to) ==
  get(t, "Scope",
      [NoGuard EXCEPT !.kind = "Scope", !.live = TRUE, !.gets = 1], to)

\* Mutant: ~Scope() signals only when the constructor's get() succeeded.
Scope_dtor_ifAcquired(t) ==
  /\ guard' = [guard EXCEPT ![t].live = FALSE,
                            ![t].puts = IF guard[t].acq > 0 THEN @ + 1 ELSE @]
  /\ last' = [t |-> t, op |-> "~Scope", to |-> "none", ret |-> 0]
  /\ IF guard[t].acq > 0 THEN dispatch_semaphore_signal
                         ELSE UNCHANGED semVars

\* ~Scope() { sem_.put(); }
Scope_dtor(t) ==
  /\ put(t, "~Scope")
  /\ guard' = [guard EXCEPT ![t].live = FALSE, ![t].puts = @ + 1]

NewScope(t) ==
  /\ CanCall(t)
  /\ ~guard[t].live
  /\ \E to \in Timeouts : Scope(t, to)
  /\ ops' = ops + 1
  /\ UNCHANGED <<initialValue, role, objVars, bodyVars>>

EndScope(t) ==
  /\ role[t] = "api" /\ pc[t] = "idle"
  /\ guard[t].live /\ guard[t].kind = "Scope"
  /\ Scope_dtor(t)
  /\ UNCHANGED <<initialValue, role, objVars, pc, waitVars, bodyVars, ops>>

\* ------------------------------------------------ _HSemaphoreSectionScope
\* Mutant: the constructor acquires, as Scope's does.
HSemaphoreSectionScope_acquires(t) ==
  /\ guard' = [guard EXCEPT ![t] =
       [NoGuard EXCEPT !.kind = "Section", !.live = TRUE,
                       !.gets = 1, !.acq = 1]]
  /\ last' = [t |-> t, op |-> "Section", to |-> "none", ret |-> 0]
  /\ dsema_value' = dsema_value - 1
  /\ nacq' = nacq + 1
  /\ UNCHANGED <<wakeups, nput>>

\* explicit _HSemaphoreSectionScope(HSemaphore & sem): sem_(sem), used_(false).
HSemaphoreSectionScope(t) ==
  /\ guard' = [guard EXCEPT ![t] =
       [NoGuard EXCEPT !.kind = "Section", !.live = TRUE]]
  /\ last' = [t |-> t, op |-> "Section", to |-> "none", ret |-> 0]
  /\ UNCHANGED semVars

\* Mutant: the destructor does not signal.
HSemaphoreSectionScope_dtor_noPut(t) ==
  /\ guard' = [guard EXCEPT ![t].live = FALSE]
  /\ last' = [t |-> t, op |-> "~Section", to |-> "none", ret |-> 0]
  /\ UNCHANGED semVars

\* ~_HSemaphoreSectionScope() { sem_.put(); }
HSemaphoreSectionScope_dtor(t) ==
  /\ put(t, "~Section")
  /\ guard' = [guard EXCEPT ![t].live = FALSE, ![t].puts = @ + 1]

\* Mutant: getOnce() sets used_ without sem_.get().
getOnce_noGet(t) ==
  /\ guard' = [guard EXCEPT ![t].once = @ + 1, ![t].used_ = TRUE]
  /\ last' = [t |-> t, op |-> "getOnce", to |-> "none",
              ret |-> IF guard[t].used_ THEN 0 ELSE 1]
  /\ pc' = [pc EXCEPT ![t] =
       RetPc(t, "getOnce", IF guard[t].used_ THEN 0 ELSE 1)]
  /\ UNCHANGED <<semVars, waitVars>>

\* Mutant: getOnce() does not test used_.
getOnce_noFlag(t) ==
  get(t, "getOnce", [guard[t] EXCEPT !.once = @ + 1, !.gets = @ + 1],
      DISPATCH_TIME_FOREVER)

\* bool getOnce(): if (used_) return false; sem_.get(); return (used_ = true);
getOnce(t) ==
  IF guard[t].used_
    THEN /\ guard' = [guard EXCEPT ![t].once = @ + 1]
         /\ last' = [t |-> t, op |-> "getOnce", to |-> "none", ret |-> 0]
         /\ pc' = [pc EXCEPT ![t] = RetPc(t, "getOnce", 0)]
         /\ UNCHANGED <<semVars, waitVars>>
    ELSE get(t, "getOnce",
             [guard[t] EXCEPT !.once = @ + 1, !.gets = @ + 1],
             DISPATCH_TIME_FOREVER)

NewSection(t) ==
  /\ CanCall(t)
  /\ ~guard[t].live
  /\ HSemaphoreSectionScope(t)
  /\ ops' = ops + 1
  /\ UNCHANGED <<initialValue, role, objVars, pc, waitVars, bodyVars>>

CallGetOnce(t) ==
  /\ CanCall(t)
  /\ guard[t].live /\ guard[t].kind = "Section"
  /\ getOnce(t)
  /\ ops' = ops + 1
  /\ UNCHANGED <<initialValue, role, objVars, bodyVars>>

EndSection(t) ==
  /\ role[t] = "api" /\ pc[t] = "idle"
  /\ guard[t].live /\ guard[t].kind = "Section"
  /\ HSemaphoreSectionScope_dtor(t)
  /\ UNCHANGED <<initialValue, role, objVars, pc, waitVars, bodyVars, ops>>

\* ----------------------------------------------- HSemaphoreSection(sem)
\* for (_HSemaphoreSectionScope __ksss(sem); __ksss.getOnce() ; ) body
\* The init-statement: __ksss is constructed.
ForInit(t) ==
  /\ role[t] = "section" /\ pc[t] = "start"
  /\ HSemaphoreSectionScope(t)
  /\ pc' = [pc EXCEPT ![t] = "for_cond"]
  /\ UNCHANGED <<initialValue, role, objVars, waitVars, bodyVars, ops>>

\* The condition: __ksss.getOnce(); true enters the body, false ends the loop.
ForCond(t) ==
  /\ role[t] = "section" /\ pc[t] = "for_cond"
  /\ getOnce(t)
  /\ UNCHANGED <<initialValue, role, objVars, bodyVars, ops>>

\* The body, first half: the shared counter is read.
BodyRead(t) ==
  /\ pc[t] = "body_read"
  /\ tmp' = [tmp EXCEPT ![t] = counter]
  /\ pc' = [pc EXCEPT ![t] = "body_write"]
  /\ UNCHANGED <<semVars, initialValue, role, objVars, waitVars, last, guard,
                 counter, bodyRuns, exitPath, ops>>

\* Mutant: a return from the body leaves the function without destroying
\* __ksss.
BodyExit_noUnwind(e) ==
  IF e \in {"fallthrough", "continue"} THEN "for_cond"
  ELSE IF e = "return" THEN "done" ELSE "for_end"

\* Where control goes when the body is left by exit path e: the end of the
\* body and continue go to the condition again (the for statement has no
\* iteration expression); break, return and a thrown exception leave the for
\* statement, whose init-statement variable __ksss is then destroyed.
BodyExit(e) ==
  IF e \in {"fallthrough", "continue"} THEN "for_cond" ELSE "for_end"

\* The body, second half: the counter is written back, and the body is left.
BodyWrite(t) ==
  /\ pc[t] = "body_write"
  /\ counter' = tmp[t] + 1
  /\ bodyRuns' = [bodyRuns EXCEPT ![t] = @ + 1]
  /\ \E e \in ExitPaths :
       /\ exitPath' = [exitPath EXCEPT ![t] = e]
       /\ pc' = [pc EXCEPT ![t] = BodyExit(e)]
  /\ UNCHANGED <<semVars, initialValue, role, objVars, waitVars, last, guard,
                 tmp, ops>>

\* The for statement is left: __ksss goes out of scope.
ForEnd(t) ==
  /\ role[t] = "section" /\ pc[t] = "for_end"
  /\ HSemaphoreSectionScope_dtor(t)
  /\ pc' = [pc EXCEPT ![t] = "done"]
  /\ UNCHANGED <<initialValue, role, objVars, waitVars, bodyVars, ops>>

\* ------------------------------------------------------------ the prober
\* A thread is inside its guarded section: its getOnce() has returned true
\* and its guard is not yet destroyed.
Entered(a) == role[a] = "section" /\ guard[a].live /\ guard[a].used_

\* A prober starts once some thread has entered its section.
Started == \E a \in Threads :
             role[a] = "section" /\ (Entered(a) \/ pc[a] = "done")

ProbeTryGet(t) ==
  /\ role[t] = "prober" /\ pc[t] = "idle" /\ Started
  /\ ops < MaxOps
  /\ tryGet(t)
  /\ ops' = ops + 1
  /\ UNCHANGED <<initialValue, role, objVars, pc, waitVars, guard, bodyVars>>

ProbeGet(t) ==
  /\ role[t] = "prober" /\ pc[t] = "idle" /\ Started
  /\ get(t, "get", guard[t], DISPATCH_TIME_FOREVER)
  /\ UNCHANGED <<initialValue, role, objVars, bodyVars, ops>>

\* --------------------------------------------- HSemaphore objects, handles
\* A handle on which dispatch calls are defined: created and not yet disposed
\* of (a dispatch object is disposed of by the release that follows its
\* creation, since HSemaphore never retains).
Valid(h) == h \in created /\ releases[h] = 0

\* The live HSemaphore objects whose dsema_ is h.
Owners(h) == {o \in Objs : life[o] = "live" /\ dsema_[o] = h}

\* A dispatch call on NULL or on a disposed handle is undefined: the process
\* is ended by it, or goes on.
Undefined == crashed' \in BOOLEAN

semFrame == <<dsema_value, wakeups, initialValue, nput, nacq, role, pc,
              caller, timeout, last, guard, counter, tmp, bodyRuns,
              exitPath, ops>>

\* HSemaphore(long initialValue=0) { dsema_ = dispatch_semaphore_create(..); }
\* dispatch_semaphore_create returns a new handle, or NULL when the value is
\* negative or the semaphore cannot be allocated; the constructor stores
\* what it gets and returns.
Construct(o) ==
  /\ ~crashed
  /\ life[o] = "none"
  /\ life' = [life EXCEPT ![o] = "live"]
  /\ \/ \E h \in Handles \ created :
          /\ dsema_' = [dsema_ EXCEPT ![o] = h]
          /\ created' = created \cup {h}
     \/ /\ dsema_' = [dsema_ EXCEPT ![o] = NULL]
        /\ created' = created
  /\ UNCHANGED <<releases, crashed, semFrame>>

\* HSemaphore(const HSemaphore &): the class declares no copy constructor, so
\* the implicit one copies dsema_.
CopyConstruct(o, src) ==
  /\ ~crashed
  /\ life[o] = "none" /\ life[src] = "live"
  /\ life' = [life EXCEPT ![o] = "live"]
  /\ dsema_' = [dsema_ EXCEPT ![o] = dsema_[src]]
  /\ UNCHANGED <<created, releases, crashed, semFrame>>

\* HSemaphore & operator=(const HSemaphore &): the class declares no
\* assignment either, so the implicit one copies dsema_ over the old handle.
Assign(o, src) ==
  /\ ~crashed
  /\ o # src /\ life[o] = "live" /\ life[src] = "live"
  /\ dsema_[o] # dsema_[src]
  /\ dsema_' = [dsema_ EXCEPT ![o] = dsema_[src]]
  /\ UNCHANGED <<life, created, releases, crashed, semFrame>>

\* ~HSemaphore() { dispatch_release(dsema_); dsema_ = NULL; }
Destroy(o) ==
  /\ ~crashed
  /\ life[o] = "live"
  /\ life' = [life EXCEPT ![o] = "dead"]
  /\ dsema_' = [dsema_ EXCEPT ![o] = NULL]
  /\ IF dsema_[o] = NULL
       THEN releases' = releases /\ Undefined
       ELSE /\ releases' = [releases EXCEPT ![dsema_[o]] = @ + 1]
            /\ IF Valid(dsema_[o]) THEN crashed' = crashed ELSE Undefined
  /\ UNCHANGED <<created, semFrame>>

\* get(), tryGet() or put() on a live object whose dsema_ is NULL or disposed
\* of: dispatch_semaphore_wait / _signal on an invalid handle.
UseInvalid(o) ==
  /\ ~crashed
  /\ life[o] = "live"
  /\ ~Valid(dsema_[o])
  /\ Undefined
  /\ UNCHANGED <<dsema_, life, created, releases, semFrame>>

\* ------------------------------------------------------- specifications
Locals ==
  /\ caller = [t \in Threads |-> "none"]
  /\ timeout = [t \in Threads |-> DISPATCH_TIME_FOREVER]
  /\ last = [t |-> 0, op |-> "none", to |-> "none", ret |-> 0]
  /\ guard = [t \in Threads |-> NoGuard]
  /\ counter = 0
  /\ tmp = [t \in Threads |-> 0]
  /\ bodyRuns = [t \in Threads |-> 0]
  /\ exitPath = [t \in Threads |-> "none"]
  /\ ops = 0
  /\ dsema_ = [o \in Objs |-> IF o = 1 THEN 1 ELSE NULL]
  /\ life = [o \in Objs |-> IF o = 1 THEN "live" ELSE "none"]
  /\ created = {1}
  /\ releases = [h \in Handles |-> 0]
  /\ crashed = FALSE

\* Threads that call the API of HSemaphore and of its guards in any order.
Init ==
  /\ \E k \in 0..MaxInit : HSemaphore(k)
  /\ role = [t \in Threads |-> "api"]
  /\ pc = [t \in Threads |-> "idle"]
  /\ Locals

Next ==
  \E t \in Threads :
    \/ CallGet(t)
    \/ CallTryGet(t)
    \/ CallPut(t)
    \/ NewScope(t)
    \/ EndScope(t)
    \/ NewSection(t)
    \/ CallGetOnce(t)
    \/ EndSection(t)
    \/ WaitWake(t)
    \/ WaitTimeout(t)

Spec == Init /\ [][Next]_vars

\* Threads that each run one HSemaphoreSection(sem) { counter++; }, on a
\* semaphore of any initial count, the constructor's default included (the
\* header's Example and __HSemaphore_init construct "HSemaphore sem;").
InitSection ==
  /\ \E k \in DefaultInitialValue..MaxInit : HSemaphore(k)
  /\ role = [t \in Threads |-> "section"]
  /\ pc = [t \in Threads |-> "start"]
  /\ Locals

NextSection ==
  \E t \in Threads :
    \/ ForInit(t)
    \/ ForCond(t)
    \/ BodyRead(t)
    \/ BodyWrite(t)
    \/ ForEnd(t)
    \/ WaitWake(t)

SpecSection == InitSection /\ [][NextSection]_vars

\* One step of thread t's section.
SectionStep(t) ==
  \/ ForInit(t)
  \/ ForCond(t)
  \/ BodyRead(t)
  \/ BodyWrite(t)
  \/ ForEnd(t)
  \/ WaitWake(t)

\* Fair scheduling: a thread that can go on is eventually run; a thread
\* suspended in dispatch_semaphore_wait can go on once a wake-up is posted.
FairSpecSection ==
  SpecSection /\ \A t \in Threads : WF_vars(SectionStep(t))

\* The scenario: sem created with count 1, thread 1 (A) runs a section,
\* thread 2 (B) starts after A has entered, calls tryGet() and then get().
InitScenario ==
  /\ HSemaphore(1)
  /\ role = [t \in Threads |->
       IF t = 1 THEN "section" ELSE IF t = 2 THEN "prober" ELSE "none"]
  /\ pc = [t \in Threads |->
       IF t = 1 THEN "start" ELSE IF t = 2 THEN "idle" ELSE "done"]
  /\ Locals

NextScenario ==
  \E t \in Threads :
    \/ ForInit(t)
    \/ ForCond(t)
    \/ BodyRead(t)
    \/ BodyWrite(t)
    \/ ForEnd(t)
    \/ ProbeTryGet(t)
    \/ ProbeGet(t)
    \/ WaitWake(t)

SpecScenario == InitScenario /\ [][NextScenario]_vars

\* HSemaphore objects constructed, copied, assigned and destroyed.
InitHandle ==
  /\ HSemaphore(0)
  /\ role = [t \in Threads |-> "none"]
  /\ pc = [t \in Threads |-> "done"]
  /\ caller = [t \in Threads |-> "none"]
  /\ timeout = [t \in Threads |-> DISPATCH_TIME_FOREVER]
  /\ last = [t |-> 0, op |-> "none", to |-> "none", ret |-> 0]
  /\ guard = [t \in Threads |-> NoGuard]
  /\ counter = 0
  /\ tmp = [t \in Threads |-> 0]
  /\ bodyRuns = [t \in Threads |-> 0]
  /\ exitPath = [t \in Threads |-> "none"]
  /\ ops = 0
  /\ dsema_ = [o \in Objs |-> NULL]
  /\ life = [o \in Objs |-> "none"]
  /\ created = {}
  /\ releases = [h \in Handles |-> 0]
  /\ crashed = FALSE

NextHandle ==
  \E o \in Objs :
    \/ Construct(o)
    \/ \E src \in Objs : CopyConstruct(o, src)
    \/ \E src \in Objs : Assign(o, src)
    \/ Destroy(o)
    \/ UseInvalid(o)

SpecHandle == InitHandle /\ [][NextHandle]_vars

\* ================================================================ claims

InBody(t) == pc[t] \in {"body_read", "body_write"}
AllDone == \A t \in Threads : pc[t] = "done"

\* C1: with initial count 1 and N threads that each wrap counter++ in
\* HSemaphoreSection(sem), at most one thread is inside a section body at any
\* time, and once all threads have completed the counter equals N.
C1_MutualExclusion ==
  initialValue = 1 =>
    /\ Cardinality({t \in Threads : InBody(t)}) <= 1
    /\ Cardinality({t \in Threads : guard[t].live /\ guard[t].used_}) <= 1
    /\ (AllDone => counter = NThreads)

\* C1 witness: every thread has run its section on a semaphore of count 1.
C1_Witness ==
  /\ initialValue = 1
  /\ AllDone
  /\ counter = NThreads
  /\ \A t \in Threads : bodyRuns[t] = 1

C3_RunOnce ==
  \A t \in Threads :
    LET g == guard[t] IN
    g.kind = "Section" =>
      /\ g.gets = (IF g.once >= 1 THEN 1 ELSE 0)
      /\ g.acq <= g.gets
      /\ g.used_ <=> g.acq = 1
      /\ (pc[t] = "waiting" /\ caller[t] = "getOnce") => g.once = 1
      /\ (last.op = "getOnce" /\ last.t = t) =>
           /\ g.once >= 1
           /\ (last.ret = 1) <=> (g.once = 1)

\* C3 witness: getOnce() has been called twice on one guard, the second
\* call returned false, and the guard has made one get().
C3_Witness ==
  \E t \in Threads :
    /\ guard[t].kind = "Section" /\ guard[t].live
    /\ guard[t].once >= 2 /\ guard[t].gets = 1 /\ guard[t].acq = 1
    /\ last.op = "getOnce" /\ last.t = t /\ last.ret = 0

\* A call of get() by thread t returns on this step.
GetReturns(t) ==
  \/ CallGet(t) /\ pc'[t] # "waiting"
  \/ (WaitWake(t) \/ WaitTimeout(t)) /\ caller[t] = "get"

C4_Inv ==
  /\ Count >= 0
  /\ nacq <= initialValue + nput
  /\ \A t \in Threads : (pc[t] = "waiting" /\ Count = 0) => wakeups = 0
  /\ (last.op = "get" /\ last.to = DISPATCH_TIME_FOREVER) =>
       last.ret = Acquired

C4_Step ==
  \A t \in Threads :
    /\ (CallGet(t) /\ Count = 0) => pc'[t] = "waiting"
    /\ GetReturns(t) =>
         /\ last'.op = "get" /\ last'.t = t
         /\ (last'.ret = Acquired) <=> (nacq' = nacq + 1)
         /\ last'.ret = Acquired => (Count > 0 /\ Count' = Count - 1)
         /\ last'.ret # Acquired => Count' = Count

\* C4: get(timeout) returns zero only after decrementing a count that was
\* > 0, the caller waits while the count is 0, a get with the infinite
\* timeout never returns non-zero, and with several threads calling, each
\* unit of count is granted to one caller only.
C4_Get == []C4_Inv /\ [][C4_Step]_vars

\* C4 witness: of two threads calling get(), one has been granted the unit
\* and the other is blocked on a count of 0.
C4_Witness ==
  \E t, u \in Threads :
    /\ t # u
    /\ Blocked(t) /\ caller[t] = "get" /\ Count = 0
    /\ last.op = "get" /\ last.t = u /\ last.ret = Acquired

C5_Step ==
  \A t \in Threads :
    CallPut(t) =>
      /\ pc'[t] = "idle"
      /\ dsema_value' = dsema_value + 1
      /\ Count' = Count + 1
      /\ wakeups' =
           wakeups + (IF Cardinality(Waiting) > wakeups THEN 1 ELSE 0)
      /\ last'.op = "put" /\ last'.t = t
      /\ (last'.ret # 0) <=> (wakeups' = wakeups + 1)

C6_TryGetIsZeroTimeoutGet ==
  [][\A t \in Threads :
       CallTryGet(t) =>
         /\ pc'[t] = "idle"
         /\ IF dsema_value > 0
              THEN last'.ret = Acquired /\ dsema_value' = dsema_value - 1
              ELSE last'.ret # Acquired /\ dsema_value' = dsema_value]_vars

\* C7: for initial count K, exactly K calls of get() with the infinite
\* timeout succeed without blocking and the next one blocks; after one put()
\* a blocked call is released.
C7_Balanced ==
  /\ nput = 0 =>
       /\ nacq <= initialValue
       /\ (\E t \in Threads : Blocked(t)) => nacq = initialValue
       /\ Waiting = {} => dsema_value = initialValue - nacq
       /\ wakeups = 0
  /\ (Waiting # {} /\ Count > 0) => wakeups > 0
  /\ (nput = 1 /\ Waiting = {}) => nacq <= initialValue + 1

\* C7 witness: K gets succeeded, one more blocked, one put() followed, and
\* the blocked get has returned zero.
C7_Witness ==
  /\ initialValue >= 1
  /\ nput = 1
  /\ nacq = initialValue + 1
  /\ last.op = "get" /\ last.ret = Acquired
  /\ Waiting = {}

C8_Inv ==
  /\ \A t \in Threads :
       (pc[t] = "waiting" /\ timeout[t] = DISPATCH_TIME_NOW /\ Count = 0)
         => (wakeups = 0 /\ dsema_value < 0)
  /\ Waiting = {} => dsema_value = initialValue + nput - nacq
  /\ nacq <= initialValue + nput

C8_Step ==
  \A t \in Threads :
    (WaitTimeout(t) /\ caller[t] = "get") =>
      /\ last'.op = "get" /\ last'.t = t
      /\ last'.ret = TimedOut
      /\ pc'[t] = "idle"
      /\ Count' = Count
      /\ nacq' = nacq

\* C8: a zero-duration wait on a count of 0 returns non-zero as the result
\* of get() and takes nothing from the count, so that after it one put()
\* lets exactly one get() succeed.
C8_Timeout == []C8_Inv /\ [][C8_Step]_vars

\* C8 witness: on a semaphore created with 0, after four calls of which one
\* was a put() and one a get() that succeeded, a get() has timed out and the
\* value is 0 again.
C8_Witness ==
  /\ initialValue = 0
  /\ ops = 4 /\ nput = 1 /\ nacq = 1
  /\ last.op = "get" /\ last.to = DISPATCH_TIME_NOW /\ last.ret = TimedOut
  /\ Waiting = {} /\ dsema_value = 0

C10_PutIffAcquired ==
  \A t \in Threads :
    (guard[t].kind # "none" /\ ~guard[t].live) =>
      ((guard[t].puts = 1) <=> (guard[t].acq = 1))
\* A guard of thread t is destroyed on this step.
Destroys(t) == EndScope(t) \/ EndSection(t)

C11_Inv ==
  \A t \in Threads :
    LET g == guard[t] IN
    g.kind # "none" =>
      /\ g.puts = (IF g.live THEN 0 ELSE 1)
      /\ g.acq <= 1

C11_Step ==
  \A t \in Threads :
    Destroys(t) =>
      /\ nput' = nput + 1
      /\ dsema_value' = dsema_value + 1
      /\ Count' = Count + 1
      /\ guard'[t].acq = guard[t].acq
      /\ guard'[t].puts = 1 /\ ~guard'[t].live

\* C11: the destruction of a guard calls put() whether or not the guard
\* acquired: a section guard destroyed without getOnce() and a Scope whose
\* get(timeout) timed out still signal, which leaves the count one higher
\* than it was before the guard was created.
C11_UnconditionalPut == []C11_Inv /\ [][C11_Step]_vars

\* C11 witness: on a semaphore created with 0, a Scope whose get timed out
\* and a section guard on which getOnce() was never called have both been
\* destroyed, and the value is 2.
C11_Witness ==
  \E t, u \in Threads :
    /\ guard[t].kind = "Scope" /\ ~guard[t].live
    /\ guard[t].acq = 0 /\ guard[t].puts = 1
    /\ guard[u].kind = "Section" /\ ~guard[u].live
    /\ guard[u].once = 0 /\ guard[u].acq = 0 /\ guard[u].puts = 1
    /\ initialValue = 0 /\ ops = 2 /\ nacq = 0
    /\ Waiting = {} /\ dsema_value = 2
\* C12 (as claimed): over every sequence of construction, copy construction,
\* assignment and destruction, each handle is owned by exactly one HSemaphore
\* object and is released exactly once: never twice, and not zero times once
\* no live object holds it.
C12_SingleOwner ==
  \A h \in created :
    /\ Cardinality(Owners(h)) <= 1
    /\ releases[h] <= 1
    /\ (Owners(h) = {}) <=> (releases[h] = 1)

\* C13 (as claimed): when dispatch_semaphore_create returns no handle the
\* construction fails, so no constructed HSemaphore object holds a null
\* handle on which get, tryGet or put could be called.
C13_NoNullHandle ==
  \A o \in Objs : life[o] = "live" => dsema_[o] # NULL
C14_Inv ==
  \A t \in Threads :
    LET g == guard[t] IN
    g.kind = "Section" =>
      /\ g.gets <= 1 /\ g.acq <= 1
      /\ g.puts = (IF g.live THEN 0 ELSE 1)
      /\ g.used_ => g.acq = 1
      /\ (~g.live /\ g.once = 1) =>
           (g.gets = 1 /\ g.acq = 1 /\ g.puts = 1 /\ g.used_)

C14_Step ==
  \A t \in Threads :
    (guard[t].kind = "Section" /\ guard[t].live) =>
      /\ guard[t].used_ => guard'[t].used_
      /\ guard'[t].acq > guard[t].acq => (guard[t].puts = 0 /\ guard'[t].live)
      /\ guard'[t].puts > guard[t].puts =>
           (~guard'[t].live /\ guard'[t].acq = guard[t].acq)

\* C14: over the lifetime of one section guard the semaphore is acquired at
\* most once and signalled exactly once, the signal does not precede the
\* acquisition, and used_ only changes from false to true; a guard destroyed
\* after exactly one getOnce() has made one get() and one put().
C14_GuardLifetime == []C14_Inv /\ [][C14_Step]_vars

\* C14 witness: a section guard has been destroyed after exactly one
\* getOnce(), with one get() and one put() made.
C14_Witness ==
  \E t \in Threads :
    /\ guard[t].kind = "Section" /\ ~guard[t].live
    /\ guard[t].once = 1 /\ guard[t].used_
    /\ guard[t].gets = 1 /\ guard[t].acq = 1 /\ guard[t].puts = 1
    /\ last.op = "~Section" /\ last.t = t

C15_Inv ==
  \A t \in Threads :
    (guard[t].kind = "Section" /\ guard[t].once = 0) =>
      (guard[t].gets = 0 /\ guard[t].acq = 0 /\ ~guard[t].used_)

C15_Step ==
  \A t \in Threads :
    /\ NewSection(t) =>
         /\ pc'[t] = "idle"
         /\ dsema_value' = dsema_value /\ Count' = Count
         /\ nacq' = nacq /\ nput' = nput
         /\ guard'[t].live /\ ~guard'[t].used_ /\ guard'[t].gets = 0
    /\ (guard[t].kind = "Section" /\ guard[t].live
          /\ guard'[t].gets > guard[t].gets) =>
         (CallGetOnce(t) /\ guard[t].once = 0)

\* C15: constructing a section guard does not acquire: the construction
\* returns at once and leaves the count unchanged, and the guard's get()
\* is made by the first getOnce() only.
C15_CtorDoesNotAcquire == []C15_Inv /\ [][C15_Step]_vars

\* C15 witness: a section guard has been constructed on a semaphore whose
\* count is 0, nobody waits, and getOnce() has not been called.
C15_Witness ==
  \E t \in Threads :
    /\ guard[t].kind = "Section" /\ guard[t].live /\ guard[t].once = 0
    /\ last.op = "Section" /\ last.t = t
    /\ pc[t] = "idle" /\ dsema_value = 0 /\ Waiting = {}
\* The constructor of thread t's Scope returns on this step.
ScopeReturns(t) ==
  \/ NewScope(t) /\ pc'[t] # "waiting"
  \/ (WaitWake(t) \/ WaitTimeout(t)) /\ caller[t] = "Scope"

C17_Inv ==
  \A t \in Threads :
    LET g == guard[t] IN
    g.kind = "Scope" =>
      /\ g.gets = 1 /\ g.acq <= 1
      /\ g.puts = (IF g.live THEN 0 ELSE 1)
      /\ (pc[t] = "waiting" /\ caller[t] = "Scope"
            /\ timeout[t] = DISPATCH_TIME_FOREVER) =>
           (g.live /\ g.acq = 0 /\ (wakeups = 0 => Blocked(t)))

C17_Step ==
  \A t \in Threads :
    /\ (ScopeReturns(t) /\ last'.to = DISPATCH_TIME_FOREVER) =>
         /\ last'.op = "Scope" /\ last'.t = t
         /\ guard'[t].kind = "Scope" /\ guard'[t].live
         /\ guard'[t].acq = 1
         /\ nacq' = nacq + 1
         /\ Count' = Count - 1
    /\ EndScope(t) =>
         /\ guard'[t].puts = 1 /\ ~guard'[t].live
         /\ nput' = nput + 1
         /\ Count' = Count + 1
         /\ dsema_value' = dsema_value + 1

\* C17: an HSemaphore::Scope constructed with the default, infinite timeout
\* is a scoped guard: its constructor returns only after it has decremented
\* the semaphore, and its destruction increments the semaphore exactly once,
\* so the Scope's own effect on the count is zero.
C17_ScopeGuard == []C17_Inv /\ [][C17_Step]_vars

\* C17 witness: a Scope constructed with the infinite timeout on a count of 0
\* waited, was let in by a put(), and has been destroyed: the value is back
\* at what the put() made it.
C17_Witness ==
  \E t \in Threads :
    /\ initialValue = 0 /\ ops = 2 /\ nput = 2 /\ nacq = 1
    /\ guard[t].kind = "Scope" /\ ~guard[t].live
    /\ guard[t].acq = 1 /\ guard[t].puts = 1
    /\ last.op = "~Scope" /\ last.t = t
    /\ Waiting = {} /\ dsema_value = 1
C18_Inv ==
  /\ Count = initialValue + nput - nacq
  /\ Count >= 0
  /\ last.op = "tryGet" => last.ret # Acquired

C18_Step ==
  /\ \A t \in Threads : WaitTimeout(t) =>
       /\ caller[t] = "get" => last'.ret = TimedOut
       /\ Count' = Count /\ nput' = nput /\ nacq' = nacq
  /\ (\E t \in Threads : tryGet(t)) =>
       /\ Count' = Count /\ nput' = nput /\ nacq' = nacq
  /\ (nacq' # nacq) =>
       /\ nacq' = nacq + 1 /\ Count' = Count - 1
       /\ last'.op \in {"get", "Scope", "getOnce"}
       /\ last'.op = "get" => last'.ret = Acquired
  /\ (nput' # nput) => (nput' = nput + 1 /\ Count' = Count + 1)

\* C18: strict 1:1 pairing. In every reachable state of a semaphore created
\* with initial count K >= 0, the count (the semaphore's value with the
\* decrements of the calls still waiting put back) is K plus the number of
\* completed put() calls minus the number of get/tryGet calls that returned
\* Acquired, and it is never negative; a call that returned TimedOut, and a
\* tryGet(), contribute nothing.
C18_Pairing == []C18_Inv /\ [][C18_Step]_vars

\* C18 witness: puts and acquisitions have both happened and the last call, a
\* get() with a zero timeout, has just returned TimedOut on a count of 0.
C18_Witness ==
  /\ nput >= 1 /\ nacq >= 2
  /\ last.op = "get" /\ last.to = DISPATCH_TIME_NOW /\ last.ret = TimedOut
  /\ Count = 0 /\ initialValue + nput = nacq
\* Thread t is in the section's getOnce(), suspended in sem_.get() for ever:
\* no unit is left, and no thread holds one that its guard would put back.
StuckInSection(t) ==
  /\ role[t] = "section" /\ caller[t] = "getOnce"
  /\ Blocked(t)
  /\ bodyRuns[t] = 0
  /\ Count = 0
  /\ \A u \in Threads :
       role[u] = "section" /\ (pc[u] = "waiting" \/ pc[u] = "start")

\* C16: a routine that, like __HSemaphore_init, creates an HSemaphore with the
\* default initial count and enters one HSemaphoreSection on it terminates: it
\* acquires the semaphore, runs the body once, releases and returns; so it is
\* never suspended in the section's get() without any unit that could arrive.
C16_StartupTerminates ==
  initialValue = DefaultInitialValue =>
    \A t \in Threads : ~StuckInSection(t)
Unfinished == {t \in Threads : pc[t] # "done"}

C19_NoDeadlock ==
  initialValue >= 1 =>
    /\ Unfinished # {} => \E t \in Unfinished : ~Blocked(t)
    /\ AllDone => (dsema_value = initialValue /\ Count = initialValue
                     /\ wakeups = 0)

\* Every thread waiting in its section's get() eventually enters its body; so
\* whenever threads wait, some waiting thread eventually enters.
C19_SomeWaiterEnters ==
  \A t \in Threads :
    (initialValue >= 1 /\ pc[t] = "waiting") ~> InBody(t)

\* C19: progress without deadlock. For a semaphore with initial count K >= 1
\* used only through non-nested HSemaphoreSection blocks whose bodies
\* terminate, under fair scheduling no reachable state has every unfinished
\* thread blocked in get, some waiting thread always eventually enters its
\* section, and when all threads have finished the count is K again.
C19_Progress ==
  /\ []C19_NoDeadlock
  /\ C19_SomeWaiterEnters

\* C19 witness: with K = 1 a thread waited in its section's get() while
\* another was inside; that one has finished and its release has posted the
\* wake-up that lets the waiting thread in.
C19_Witness ==
  \E t, u \in Threads :
    /\ initialValue = 1
    /\ pc[t] = "done" /\ bodyRuns[t] = 1
    /\ pc[u] = "waiting" /\ caller[u] = "getOnce"
    /\ wakeups = 1 /\ dsema_value = 0
====
